---- MODULE Spec2Model ----
(***************************************************************************)
(* Model of the Quest Helper plugin backend (main.py): the credential      *)
(* store (set_api_key / get_api_key over settings.json), the screenshot    *)
(* locator with its X11 fallback (capture_screenshot), the quest-help      *)
(* requester (get_quest_help / request_quest_help) and the lifecycle       *)
(* hooks (_main, _unload, _uninstall, start_timer).                        *)
(***************************************************************************)
EXTENDS Integers, Sequences, FiniteSets, TLC

VARIABLES
    libs,           \* the module-level imports succeeded: AsyncOpenAI and Image are not None
    openai_client,  \* self.openai_client
    api_key,        \* self.api_key
    loop,           \* self.loop has been assigned
    settings,       \* the content of settings.json
    timers,         \* long_running tasks that were created and still sleep
    ret,            \* what the last set_api_key / get_api_key call returned
    escaped,        \* an exception crossed the boundary of a host-invoked operation
    shot,           \* the last direct capture_screenshot call: its inputs, locals and result
    req             \* the invocations of get_quest_help / request_quest_help

vars == <<libs, openai_client, api_key, loop, settings, timers, ret, escaped, shot, req>>

(***************************************************************************)
(* Bounds of the model.                                                    *)
(***************************************************************************)
MaxKeyLen == 1
NumRequests == 2
MaxMtime == 1
MaxTimers == 1

\* the two entries of screenshot_paths
NumDirs == 2

(***************************************************************************)
(* Credential strings: sequences of characters, among them the two that    *)
(* the JSON encoder has to escape.                                         *)
(***************************************************************************)
Chars == {"a", "\"", "\\"}

RECURSIVE SeqsUpTo(_, _)
SeqsUpTo(S, n) ==
    IF n = 0 THEN {<<>>}
    ELSE LET shorter == SeqsUpTo(S, n - 1)
         IN  shorter \cup {Append(s, c) : s \in shorter, c \in S}

Keys == SeqsUpTo(Chars, MaxKeyLen)

\* Python's None, for self.api_key and self.openai_client
NoneKey == <<"None">>
NoClient == [present |-> FALSE, key |-> <<>>]
\* AsyncOpenAI(api_key=k): the handle remembers the key it was built from
AsyncOpenAI(k) == [present |-> TRUE, key |-> k]

(***************************************************************************)
(* settings.json.  The file is a sequence of tokens: the framing tokens of *)
(* the one-field object and the characters of the string literal.          *)
(***************************************************************************)
Absent == <<"absent">>

\* the escaping left out
EscapeNothing(k) == k

\* json's string escaping: a quote and a backslash get a backslash in front
RECURSIVE Escape(_)
Escape(k) ==
    IF k = <<>> THEN <<>>
    ELSE IF Head(k) \in {"\"", "\\"}
         THEN <<"\\", Head(k)>> \o Escape(Tail(k))
         ELSE <<Head(k)>> \o Escape(Tail(k))

\* json.dump({"api_key": k}, f)
Dump(k) == <<"{", "api_key", ":", "\"">> \o Escape(k) \o <<"\"", "}">>

\* the body of a JSON string literal, read back: ok is FALSE on a bare quote
\* or a dangling backslash
RECURSIVE Unescape(_)
Unescape(s) ==
    IF s = <<>> THEN [ok |-> TRUE, val |-> <<>>]
    ELSE IF Head(s) = "\\"
         THEN IF Len(s) >= 2 /\ s[2] \in {"\"", "\\"}
              THEN LET r == Unescape(SubSeq(s, 3, Len(s)))
                   IN  [ok |-> r.ok, val |-> <<s[2]>> \o r.val]
              ELSE [ok |-> FALSE, val |-> <<>>]
         ELSE IF Head(s) = "\""
              THEN [ok |-> FALSE, val |-> <<>>]
              ELSE LET r == Unescape(Tail(s))
                   IN  [ok |-> r.ok, val |-> <<Head(s)>> \o r.val]

\* json.load(f) followed by settings.get("api_key", ""): ok is FALSE when
\* the text is not a JSON document (json.load raises)
Load(text) ==
    IF /\ Len(text) >= 6
       /\ SubSeq(text, 1, 4) = <<"{", "api_key", ":", "\"">>
       /\ SubSeq(text, Len(text) - 1, Len(text)) = <<"\"", "}">>
    THEN Unescape(SubSeq(text, 5, Len(text) - 2))
    ELSE [ok |-> FALSE, val |-> <<>>]

\* get_api_key(): the stored key, "" when there is no file or it is unreadable
StoredKey(file) ==
    IF file = Absent THEN <<>>
    ELSE IF Load(file).ok THEN Load(file).val ELSE <<>>

\* what a write that fails part-way leaves behind: open(.., 'w') has
\* truncated the file and only a proper prefix of the text reached it
Prefixes(text) == {SubSeq(text, 1, n) : n \in 0..(Len(text) - 1)}

(***************************************************************************)
(* capture_screenshot.  A file is <<directory, modification time>>; the    *)
(* result is the empty string or the encoding of one picture.              *)
(***************************************************************************)
Dirs == 1..NumDirs
Mtimes == 0..MaxMtime
FileSystems == SUBSET (Dirs \X Mtimes)

NoFile == <<0, 0>>      \* latest_screenshot = None
X11 == <<0, 1>>         \* the picture the fallback command grabs
Empty == <<>>           \* ""
Encoded(src) == <<src>> \* base64 of the recompressed picture of src

RECURSIVE Perms(_)
Perms(S) ==
    IF S = {} THEN {<<>>}
    ELSE UNION {{<<x>> \o p : p \in Perms(S \ {x})} : x \in S}

\* the orders the two nested loops can visit the files in: screenshot_paths
\* in list order, the files of one directory in any order (rglob)
RECURSIVE ScanOrdersFrom(_, _)
ScanOrdersFrom(files, d) ==
    IF d > NumDirs THEN {<<>>}
    ELSE {a \o b : a \in Perms({f \in files : f[1] = d}),
                   b \in ScanOrdersFrom(files, d + 1)}

ScanOrders(files) == ScanOrdersFrom(files, 1)

\* the loop body of the scan: mtime > latest_time
RECURSIVE ScanFrom(_, _, _)
ScanFrom(order, latest_screenshot, latest_time) ==
    IF order = <<>> THEN latest_screenshot
    ELSE IF Head(order)[2] > latest_time
         THEN ScanFrom(Tail(order), Head(order), Head(order)[2])
         ELSE ScanFrom(Tail(order), latest_screenshot, latest_time)

\* latest_screenshot = None; latest_time = 0; for ... in screenshot_paths
ScanLatest(order) == ScanFrom(order, NoFile, 0)

\* how the fallback command can end
FallbackOutcomes == {"ok", "garbage", "nonzero", "timeout", "missing"}

\* the X11 fallback, lines 110-137: subprocess.run(['import', ...], timeout=5)
\* and the re-encoding of its output (image is the module-level Image);
\* every failure ends in ""
Fallback(image, fb) ==
    IF fb = "ok" /\ image THEN Encoded(X11) ELSE Empty

\* the fallback also tried after the selected file could not be opened
CaptureFallingBack(image, order, scan_ok, open_ok, fb) ==
    IF ~scan_ok
    THEN [latest |-> NoFile, fallback_runs |-> 0, result |-> Empty]
    ELSE LET latest_screenshot == ScanLatest(order)
         IN  IF latest_screenshot # NoFile /\ image /\ open_ok
             THEN [latest |-> latest_screenshot, fallback_runs |-> 0,
                   result |-> Encoded(latest_screenshot)]
             ELSE [latest |-> latest_screenshot, fallback_runs |-> 1,
                   result |-> Fallback(image, fb)]

\* capture_screenshot(): scan_ok is FALSE when the scan raises (rglob, stat),
\* open_ok is FALSE when the selected file cannot be opened or re-encoded
Capture(image, order, scan_ok, open_ok, fb) ==
    IF ~scan_ok
    THEN [latest |-> NoFile, fallback_runs |-> 0, result |-> Empty]
    ELSE LET latest_screenshot == ScanLatest(order)
         IN  IF latest_screenshot # NoFile /\ image
             THEN [latest |-> latest_screenshot, fallback_runs |-> 0,
                   result |-> IF open_ok THEN Encoded(latest_screenshot) ELSE Empty]
             ELSE [latest |-> latest_screenshot, fallback_runs |-> 1,
                   result |-> Fallback(image, fb)]

\* the inputs of one capture_screenshot call: the files, the order the scan
\* visits them in, and the outcome of each step the call gets to
CaptureInputs(image) ==
    UNION {UNION {
        (IF files = {}
         THEN {}
         ELSE {[files |-> files, order |-> order, scan_ok |-> FALSE,
                open_ok |-> TRUE, fb |-> "missing"]})
        \cup
        (IF ScanLatest(order) # NoFile /\ image
         THEN {[files |-> files, order |-> order, scan_ok |-> TRUE,
                open_ok |-> open_ok, fb |-> "missing"] : open_ok \in BOOLEAN}
         ELSE {[files |-> files, order |-> order, scan_ok |-> TRUE,
                open_ok |-> TRUE, fb |-> fb] : fb \in FallbackOutcomes})
        : order \in ScanOrders(files)} : files \in FileSystems}

CaptureOf(image, in) == Capture(image, in.order, in.scan_ok, in.open_ok, in.fb)

\* what capture_screenshot can give over all its inputs, with and without
\* the imaging library
CapturesWithImage == {CaptureOf(TRUE, in) : in \in CaptureInputs(TRUE)}
CapturesWithoutImage == {CaptureOf(FALSE, in) : in \in CaptureInputs(FALSE)}
InputsWithImage == CaptureInputs(TRUE)
InputsWithoutImage == CaptureInputs(FALSE)

\* no direct capture_screenshot call yet
NoCapture == [called |-> FALSE, files |-> {}, scan_ok |-> TRUE, open_ok |-> TRUE,
              fb |-> "missing", latest |-> NoFile, fallback_runs |-> 0,
              result |-> Empty]

(***************************************************************************)
(* Help Results and the outcomes of the remote call.                       *)
(***************************************************************************)
KeyFail == [success |-> FALSE,
            text |-> <<"OpenAI API key not configured. Please set your API key first.">>]
NoScreenshot == [success |-> FALSE,
                 text |-> <<"No screenshot available. Please take a screenshot first.">>]
ShotFail == [success |-> FALSE,
             text |-> <<"Failed to capture screenshot. Please ensure you have taken a screenshot recently.">>]
\* f"Failed to get help from AI: {error_msg}"
RemoteFail(e) == [success |-> FALSE, text |-> <<"Failed to get help from AI: ", e>>]
Success(t) == [success |-> TRUE, text |-> <<t>>]
NoResult == [success |-> FALSE, text |-> <<>>]

\* chat.completions.create(...) either raises or returns a response; a
\* response may carry no choice, or a first choice whose content is None
RemoteOutcomes ==
    {[kind |-> "raise", val |-> "Connection error."],
     [kind |-> "response", val |-> "Go north."],
     [kind |-> "null", val |-> "None"],
     [kind |-> "nochoice", val |-> ""]}
NoOutcome == [kind |-> "none", val |-> ""]

\* lines 190-203: what get_quest_help returns once the awaited call is over
HelpResult(o) ==
    CASE o.kind = "raise" -> RemoteFail(o.val)
      [] o.kind = "response" -> Success(o.val)
      [] o.kind = "null" -> RemoteFail("'NoneType' object is not subscriptable")
      [] o.kind = "nochoice" -> RemoteFail("list index out of range")

\* the hydration without the test of the stored key
EnsureClientAnyKey(image) ==
    IF ~openai_client.present
    THEN LET k == StoredKey(settings)
         IN  IF libs
             THEN [client |-> AsyncOpenAI(k), key |-> k,
                   step |-> IF image = Empty THEN "noshot" ELSE "call"]
             ELSE [client |-> openai_client, key |-> api_key, step |-> "nokey"]
    ELSE [client |-> openai_client, key |-> api_key,
          step |-> IF image = Empty THEN "noshot" ELSE "call"]

\* lines 145-161 of get_quest_help: the lazy hydration of the client and the
\* two checks before the remote call
EnsureClient(image) ==
    IF ~openai_client.present
    THEN LET k == StoredKey(settings)
         IN  IF k # <<>> /\ libs
             THEN [client |-> AsyncOpenAI(k), key |-> k,
                   step |-> IF image = Empty THEN "noshot" ELSE "call"]
             ELSE [client |-> openai_client, key |-> api_key, step |-> "nokey"]
    ELSE [client |-> openai_client, key |-> api_key,
          step |-> IF image = Empty THEN "noshot" ELSE "call"]

Procs == 1..NumRequests

Idle == [pc |-> "idle", entry |-> "none", nokey |-> FALSE, image |-> Empty,
         fallbacks |-> 0, remotes |-> 0, results |-> 0, call_key |-> <<>>,
         outcome |-> NoOutcome, result |-> NoResult]

\* no API key configured: no client handle and no non-empty key persisted
NoKeyConfigured == ~openai_client.present /\ StoredKey(settings) = <<>>

(***************************************************************************)
(* Initial state: Plugin.__init__ has run; settings.json is missing or was *)
(* written by an earlier run of the plugin.                                *)
(***************************************************************************)
Init ==
    /\ libs \in BOOLEAN
    /\ openai_client = NoClient
    /\ api_key = NoneKey
    /\ loop = FALSE
    /\ settings \in {Absent} \cup {Dump(k) : k \in Keys}
    /\ timers = 0
    /\ ret = [op |-> "none", set_called |-> FALSE, set_key |-> <<>>,
              set_ok |-> FALSE, val |-> <<>>]
    /\ escaped = FALSE
    /\ shot = NoCapture
    /\ req = [p \in Procs |-> Idle]

(***************************************************************************)
(* Credential store.                                                       *)
(***************************************************************************)
\* set_api_key(k); fail says where it raises: "none", "before" the file is
\* opened (mkdir, open) or during the "write"
SetApiKey(k, fail) ==
    /\ api_key' = k
    /\ openai_client' = IF libs THEN AsyncOpenAI(k) ELSE openai_client
    /\ settings' \in CASE fail = "none" -> {Dump(k)}
                      [] fail = "before" -> {settings}
                      [] fail = "write" -> Prefixes(Dump(k))
    /\ ret' = [op |-> "set", set_called |-> TRUE, set_key |-> k,
                set_ok |-> (fail = "none"), val |-> <<>>]
    /\ UNCHANGED <<libs, loop, timers, escaped, shot, req>>

\* get_api_key()
GetApiKey ==
    /\ ret' = [ret EXCEPT !.op = "get", !.val = StoredKey(settings)]
    /\ UNCHANGED <<libs, openai_client, api_key, loop, settings, timers, escaped, shot, req>>

(***************************************************************************)
(* Lifecycle.                                                              *)
(***************************************************************************)
\* _main(): remember the loop, hydrate the client from the stored key
Main ==
    /\ loop' = TRUE
    /\ LET k == StoredKey(settings)
       IN  IF k # <<>> /\ libs
           THEN openai_client' = AsyncOpenAI(k) /\ api_key' = k
           ELSE UNCHANGED <<openai_client, api_key>>
    /\ UNCHANGED <<libs, settings, timers, ret, escaped, shot, req>>

\* start_timer(): self.loop.create_task(...); self.loop exists only after _main
StartTimer ==
    /\ timers < MaxTimers
    /\ IF loop
       THEN timers' = timers + 1 /\ UNCHANGED escaped
       ELSE escaped' = TRUE /\ UNCHANGED timers
    /\ UNCHANGED <<libs, openai_client, api_key, loop, settings, ret, shot, req>>

\* long_running(): the sleep is over, the event is emitted, the task ends
LongRunning ==
    /\ timers > 0
    /\ timers' = timers - 1
    /\ UNCHANGED <<libs, openai_client, api_key, loop, settings, ret, escaped, shot, req>>

\* _unload(): logs only
Unload ==
    UNCHANGED vars

\* _uninstall(): logs only
Uninstall ==
    UNCHANGED vars

(***************************************************************************)
(* Screenshot locator, called by the host.                                 *)
(***************************************************************************)
CaptureScreenshot(in) ==
    /\ LET c == CaptureOf(libs, in)
       IN  shot' = [called |-> TRUE, files |-> in.files, scan_ok |-> in.scan_ok,
                    open_ok |-> in.open_ok, fb |-> in.fb, latest |-> c.latest,
                    fallback_runs |-> c.fallback_runs, result |-> c.result]
    /\ UNCHANGED <<libs, openai_client, api_key, loop, settings, timers, ret, escaped, req>>

(***************************************************************************)
(* Quest-help requester.  An invocation runs without suspension up to the  *)
(* awaited remote call; RemoteReturn resumes it.                           *)
(***************************************************************************)
\* the invocation after lines 145-188: a Help Result, or the remote call
Started(entry, image, fallback_runs, e) ==
    [pc |-> IF e.step = "call" THEN "remote" ELSE "done",
     entry |-> entry,
     nokey |-> NoKeyConfigured,
     image |-> image,
     fallbacks |-> fallback_runs,
     remotes |-> IF e.step = "call" THEN 1 ELSE 0,
     results |-> IF e.step = "call" THEN 0 ELSE 1,
     call_key |-> IF e.step = "call" THEN e.client.key ELSE <<>>,
     outcome |-> NoOutcome,
     result |-> CASE e.step = "nokey" -> KeyFail
                  [] e.step = "noshot" -> NoScreenshot
                  [] e.step = "call" -> NoResult]

\* get_quest_help(image), up to its first Help Result or the remote call
GetQuestHelp(p, image) ==
    /\ req[p].pc = "idle"
    /\ LET e == EnsureClient(image)
       IN  /\ openai_client' = e.client
           /\ api_key' = e.key
           /\ req' = [req EXCEPT ![p] = Started("get", image, 0, e)]
    /\ UNCHANGED <<libs, loop, settings, timers, ret, escaped, shot>>

\* request_quest_help() without its own emptiness check
RequestUnchecked(p, c) ==
    /\ req[p].pc = "idle"
    /\ LET e == EnsureClient(c.result)
       IN  /\ openai_client' = e.client
           /\ api_key' = e.key
           /\ req' = [req EXCEPT ![p] =
                       Started("request", c.result, c.fallback_runs, e)]
    /\ UNCHANGED <<libs, loop, settings, timers, ret, escaped, shot>>

\* request_quest_help(): c is what its capture_screenshot call gave; the
\* emptiness check, then get_quest_help
RequestQuestHelp(p, c) ==
    /\ req[p].pc = "idle"
    /\ IF c.result = Empty
       THEN /\ req' = [req EXCEPT ![p] =
                        [Idle EXCEPT !.pc = "done", !.entry = "request",
                                     !.nokey = NoKeyConfigured,
                                     !.fallbacks = c.fallback_runs,
                                     !.results = 1, !.result = ShotFail]]
            /\ UNCHANGED <<openai_client, api_key>>
       ELSE LET e == EnsureClient(c.result)
            IN  /\ openai_client' = e.client
                /\ api_key' = e.key
                /\ req' = [req EXCEPT ![p] =
                            Started("request", c.result, c.fallback_runs, e)]
    /\ UNCHANGED <<libs, loop, settings, timers, ret, escaped, shot>>

\* a call that raised is made again
RemoteReturnRetrying(p, o) ==
    /\ req[p].pc = "remote"
    /\ req' = IF o.kind = "raise"
              THEN [req EXCEPT ![p].remotes = @ + 1]
              ELSE [req EXCEPT ![p].pc = "done", ![p].outcome = o,
                               ![p].results = @ + 1, ![p].result = HelpResult(o)]
    /\ UNCHANGED <<libs, openai_client, api_key, loop, settings, timers, ret, escaped, shot>>

\* the awaited chat.completions.create(...) is over: lines 190-203
RemoteReturn(p, o) ==
    /\ req[p].pc = "remote"
    /\ req' = [req EXCEPT ![p].pc = "done", ![p].outcome = o,
                          ![p].results = @ + 1, ![p].result = HelpResult(o)]
    /\ UNCHANGED <<libs, openai_client, api_key, loop, settings, timers, ret, escaped, shot>>

\* the host hands the Help Result to the caller; the slot is free again
Return(p) ==
    /\ req[p].pc = "done"
    /\ req' = [req EXCEPT ![p] = Idle]
    /\ UNCHANGED <<libs, openai_client, api_key, loop, settings, timers, ret, escaped, shot>>

(***************************************************************************)
(* Specifications.                                                         *)
(***************************************************************************)
SetFailures == {"none", "before", "write"}
Images == {Empty, Encoded(X11)}

DoSetApiKey == \E k \in Keys, fail \in SetFailures : SetApiKey(k, fail)

DoCaptureScreenshot ==
    \E in \in (IF libs THEN InputsWithImage ELSE InputsWithoutImage) :
        CaptureScreenshot(in)

DoGetQuestHelp(P) == \E p \in P, image \in Images : GetQuestHelp(p, image)

DoRequestQuestHelp(P) ==
    \E p \in P, c \in (IF libs THEN CapturesWithImage ELSE CapturesWithoutImage) :
        RequestQuestHelp(p, c)

DoRemoteReturn(P) == \E p \in P, o \in RemoteOutcomes : RemoteReturn(p, o)

DoReturn(P) == \E p \in P : Return(p)

\* the credential store alone
NextStore == DoSetApiKey \/ GetApiKey
SpecStore == Init /\ [][NextStore]_vars

\* the screenshot locator alone, on a fresh installation
InitFresh == Init /\ settings = Absent
NextCapture == DoCaptureScreenshot
SpecCapture == InitFresh /\ [][NextCapture]_vars

\* the lifecycle hooks and the credential store
NextHooks ==
    \/ Main
    \/ StartTimer
    \/ LongRunning
    \/ Unload
    \/ Uninstall
    \/ DoSetApiKey
    \/ GetApiKey
SpecHooks == Init /\ [][NextHooks]_vars

\* one caller asking for help, one call at a time, and the operations that
\* change the credential
NextHelp ==
    \/ Main
    \/ DoSetApiKey
    \/ DoGetQuestHelp({1})
    \/ DoRequestQuestHelp({1})
    \/ DoRemoteReturn({1})
    \/ DoReturn({1})
SpecHelp == Init /\ [][NextHelp]_vars

\* several help requests in flight, the credential as the earlier run left it
NextFlight ==
    \/ Main
    \/ DoRequestQuestHelp(Procs)
    \/ DoRemoteReturn(Procs)
    \/ DoReturn(Procs)
SpecFlight == Init /\ [][NextFlight]_vars

\* every host-invoked operation
Next ==
    \/ Main
    \/ StartTimer
    \/ LongRunning
    \/ Unload
    \/ Uninstall
    \/ DoSetApiKey
    \/ GetApiKey
    \/ DoCaptureScreenshot
    \/ DoGetQuestHelp(Procs)
    \/ DoRequestQuestHelp(Procs)
    \/ DoRemoteReturn(Procs)
    \/ DoReturn(Procs)
Spec == Init /\ [][Next]_vars

(***************************************************************************)
(* The credential store.                                                   *)
(***************************************************************************)
\* C1: a get_api_key() that follows a set_api_key(k) which returned true,
\* with no set_api_key in between, returns exactly k; on a store that was
\* never set and has no settings file it returns the empty string.
SetGetRoundTrip ==
    ret.op = "get" =>
        /\ (ret.set_called /\ ret.set_ok => ret.val = ret.set_key)
        /\ (~ret.set_called /\ settings = Absent => ret.val = <<>>)

\* a key holding a quote came back from the file
SetGetRoundTripSeen ==
    /\ ret.op = "get"
    /\ ret.set_ok
    /\ ret.set_key = <<"\"">>
    /\ ret.val = <<"\"">>

\* C2: whenever a client handle exists, the key it was built from is the
\* api_key stored in the settings file.
ClientMatchesStore ==
    openai_client.present =>
        /\ settings # Absent
        /\ Load(settings).ok
        /\ Load(settings).val = openai_client.key

\* C3: no exception crosses the boundary of a host-invoked operation.
NoExceptionEscapes == ~escaped

(***************************************************************************)
(* The help requests.                                                      *)
(***************************************************************************)
\* C4, as claimed: with no API key configured request_quest_help() returns
\* the credential failure and makes no remote call, whether or not a
\* screenshot was obtained.
NoKeyAlwaysKeyFail ==
    \A p \in Procs :
        req[p].entry = "request" /\ req[p].nokey =>
            /\ req[p].pc = "done"
            /\ req[p].result = KeyFail
            /\ req[p].remotes = 0

\* C4, amended: with no API key configured request_quest_help() makes no
\* remote call and returns a failure: the credential failure when a
\* screenshot was obtained, the capture failure when none was.
NoKeyFailsWithoutRemote ==
    \A p \in Procs :
        req[p].entry = "request" /\ req[p].nokey =>
            /\ req[p].pc = "done"
            /\ req[p].remotes = 0
            /\ req[p].result = IF req[p].image = Empty THEN ShotFail ELSE KeyFail

\* a request with a screenshot and no key ended in the credential failure
NoKeyFailsWithoutRemoteSeen ==
    \E p \in Procs :
        /\ req[p].entry = "request"
        /\ req[p].nokey
        /\ req[p].image # Empty
        /\ req[p].result = KeyFail

\* C5: when capture_screenshot gives the empty result request_quest_help()
\* returns the capture failure and attempts no remote call, whatever the
\* credential state.
EmptyShotFailsWithoutRemote ==
    \A p \in Procs :
        req[p].entry = "request" /\ req[p].image = Empty =>
            /\ req[p].pc = "done"
            /\ req[p].result = ShotFail
            /\ req[p].remotes = 0

\* a request without a screenshot failed although a client handle exists
EmptyShotFailsWithoutRemoteSeen ==
    \E p \in Procs :
        /\ req[p].entry = "request"
        /\ req[p].image = Empty
        /\ req[p].result = ShotFail
        /\ openai_client.present
        /\ openai_client.key # <<>>

\* C6: a remote call is attempted only with a non-empty credential and a
\* non-empty image; an invocation that reaches the credential check without
\* a credential ends in the fixed credential failure.
RemoteOnlyWithCredential ==
    \A p \in Procs :
        /\ req[p].remotes > 0 => req[p].call_key # <<>> /\ req[p].image # Empty
        /\ (req[p].nokey /\ (req[p].entry = "get" \/ req[p].image # Empty)) =>
               req[p].result = KeyFail

\* C7: for get_quest_help with a client handle and a non-empty image, the
\* result is success with the first choice's content whenever the remote
\* call returns, and a failure holding the exception text exactly when it
\* raises.
HelpResultFollowsRemote ==
    \A p \in Procs :
        req[p].entry = "get" /\ req[p].pc = "done" /\ req[p].remotes = 1 =>
            /\ req[p].outcome.kind # "raise" => req[p].result = Success(req[p].outcome.val)
            /\ req[p].outcome.kind = "raise" =>
                   /\ ~req[p].result.success
                   /\ \E i \in DOMAIN req[p].result.text :
                          req[p].result.text[i] = req[p].outcome.val
            /\ ~req[p].result.success <=> req[p].outcome.kind = "raise"

\* C10: an invocation of request_quest_help attempts the remote call at most
\* once and the fallback capture at most once, and has exactly one Help
\* Result once it is over and none before.
AtMostOneAttempt ==
    \A p \in Procs :
        /\ req[p].remotes <= 1
        /\ req[p].fallbacks <= 1
        /\ req[p].results = IF req[p].pc = "done" THEN 1 ELSE 0
        /\ req[p].pc = "remote" => req[p].remotes = 1

\* a request failed at the remote call, after a fallback capture, while
\* another request was still waiting for its remote call
AtMostOneAttemptSeen ==
    \E p, q \in Procs :
        /\ p # q
        /\ req[p].pc = "done"
        /\ req[p].outcome.kind = "raise"
        /\ req[p].fallbacks = 1
        /\ req[p].remotes = 1
        /\ req[q].pc = "remote"

(***************************************************************************)
(* The screenshot locator.                                                 *)
(***************************************************************************)
DistinctMtimes(files) == \A f, g \in files : f # g => f[2] # g[2]

\* C8: with pairwise distinct modification times the selected file is the
\* one with the greatest modification time over all directories.
NewestSelected ==
    shot.called /\ shot.scan_ok /\ shot.files # {} /\ DistinctMtimes(shot.files) =>
        /\ shot.latest \in shot.files
        /\ \A f \in shot.files : f[2] <= shot.latest[2]

====
